---------------------------- MODULE Spec2Model ----------------------------
(***************************************************************************)
(* Model of scripts/validate_field_writeability.py: FieldInfo (the field   *)
(* classifier), FieldValidator (extraction, aggregation, metadata cache,   *)
(* per-object validation and the returned issue list / exit code) and      *)
(* main (the exit status of the process).                                  *)
(*                                                                         *)
(* Identifiers (object types, field names) are sequences of one-character  *)
(* strings, compared by code point as Python compares str.  A describe     *)
(* "type" value is a sequence of text chunks; its concatenation is the     *)
(* Python string.                                                          *)
(***************************************************************************)
EXTENDS Integers, Sequences, FiniteSets, TLC

(***************************************************************************)
(* Bounds of the model.                                                    *)
(***************************************************************************)
\* calls made on one FieldValidator instance
MaxCalls == 2
\* files found by the two globs of one validate() call
MaxFiles == 2
\* statements in the text of one file
MaxStmts == 2
\* characters of a raw name handed to the normalizer
MaxLen == 3

(***************************************************************************)
(* Text: characters, identifiers, ordering.                                *)
(***************************************************************************)
\* ord(c) for the characters the identifiers of the model are written with
Ord == [c \in {"A", "N", "a", "c", "m", "n"} |->
          CASE c = "A" -> 65 [] c = "N" -> 78 [] c = "a" -> 97
            [] c = "c" -> 99 [] c = "m" -> 109 [] c = "n" -> 110]

\* Python's str.__lt__: lexicographic by code point, a proper prefix is smaller
RECURSIVE StrLess(_, _)
StrLess(s, t) ==
    IF s = <<>> THEN t # <<>>
    ELSE IF t = <<>> THEN FALSE
    ELSE IF Head(s) # Head(t) THEN Ord[Head(s)] < Ord[Head(t)]
    ELSE StrLess(Tail(s), Tail(t))

\* mutant: sorted(S, reverse=True)
RECURSIVE SortedDescending(_)
SortedDescending(S) ==
    IF S = {} THEN <<>>
    ELSE LET m == CHOOSE x \in S : \A y \in S \ {x} : StrLess(y, x)
         IN  <<m>> \o SortedDescending(S \ {m})

\* sorted(S) for a set of distinct strings
RECURSIVE Sorted(_)
Sorted(S) ==
    IF S = {} THEN <<>>
    ELSE LET m == CHOOSE x \in S : \A y \in S \ {x} : StrLess(x, y)
         IN  <<m>> \o Sorted(S \ {m})

\* str.upper() of one character of an identifier
Upper(c) ==
    CASE c = "a" -> "A" [] c = "c" -> "C" [] c = "m" -> "M" [] c = "n" -> "N"
      [] OTHER -> c

\* str.lower() of one character of an identifier
LowerChar(c) ==
    CASE c = "A" -> "a" [] c = "C" -> "c" [] c = "M" -> "m" [] c = "N" -> "n"
      [] OTHER -> c

\* mutant: str.capitalize(), which also lower-cases the remainder
normalize_capitalize(raw) ==
    IF raw = <<>> THEN <<>>
    ELSE <<Upper(Head(raw))>> \o [i \in 1..(Len(raw) - 1) |-> LowerChar(raw[i + 1])]

\* the name normalizer (_normalize_sobject_name): the first character in
\* upper case, the remainder as it is, the empty string for the empty string
normalize(raw) ==
    IF raw = <<>> THEN <<>> ELSE <<Upper(Head(raw))>> \o Tail(raw)

\* the characters raw names are typed with
NameChars == {"a", "A", "c", "_"}

\* object-type identifiers written in the scanned sources
ObjNames == {<<"A", "c">>, <<"a", "c">>}
\* field identifiers written in the scanned sources
FieldNames == {<<"N", "m">>, <<"n", "m">>}
\* field names a describe response reports
MetaFieldNames == {<<"N", "m">>}

(***************************************************************************)
(* Describe metadata of one field: a dict that may lack any of its keys.   *)
(***************************************************************************)
TypeValues ==
    { <<"String">>,
      <<"ExternalFieldDefinition">>,
      <<"System.", "Date">>,
      <<"System.", "ExternalFieldDefinition">>,
      <<"My", "System.", "Date">> }

Dict(keys, upd, calc, typ) ==
    [k \in keys |-> CASE k = "updateable" -> upd
                      [] k = "calculated" -> calc
                      [] k = "type" -> typ]

FieldMetas ==
    { Dict(ks, u, c, t) : ks \in SUBSET {"updateable", "calculated", "type"},
                          u \in BOOLEAN, c \in BOOLEAN, t \in TypeValues }

\* dict.get(key, default)
Get(d, key, default) == IF key \in DOMAIN d THEN d[key] ELSE default

\* 'sub' in s, for a marker that is one chunk of the text
Contains(s, sub) == \E i \in 1..Len(s) : s[i] = sub

\* s.startswith(prefix), for a prefix that is one chunk of the text
StartsWith(s, prefix) == Len(s) >= 1 /\ s[1] = prefix

(***************************************************************************)
(* class FieldInfo                                                         *)
(***************************************************************************)
FieldInfo(name, sobj_type, metadata) ==
    [name |-> name, sobj_type |-> sobj_type, metadata |-> metadata]

is_writeable(fi) == Get(fi.metadata, "updateable", FALSE)

is_formula(fi) == Get(fi.metadata, "calculated", FALSE)

is_external(fi) == Contains(Get(fi.metadata, "type", <<>>), "ExternalFieldDefinition")

\* mutant: 'System.' anywhere in the type instead of at its start
is_system_field_anywhere(fi) == Contains(Get(fi.metadata, "type", <<>>), "System.")

is_system_field(fi) == StartsWith(Get(fi.metadata, "type", <<>>), "System.")

field_type(fi) == Get(fi.metadata, "type", <<"Unknown">>)

\* mutant: the external test before the formula test
get_reason_external_first(fi) ==
    IF is_external(fi) THEN <<"External field (integration field)">>
    ELSE IF is_formula(fi) THEN <<"Formula field (calculated, not stored)">>
    ELSE IF is_system_field(fi) THEN <<"System field (", field_type(fi), ")">>
    ELSE <<"Read-only field (type: ", field_type(fi), ")">>

\* the f-strings are kept as their pieces, in order
get_reason_not_writeable(fi) ==
    IF is_formula(fi) THEN <<"Formula field (calculated, not stored)">>
    ELSE IF is_external(fi) THEN <<"External field (integration field)">>
    ELSE IF is_system_field(fi) THEN <<"System field (", field_type(fi), ")">>
    ELSE <<"Read-only field (type: ", field_type(fi), ")">>

(***************************************************************************)
(* FieldValidator._extract_assignments                                     *)
(*                                                                         *)
(* The text of a file is a sequence of statements, each of one of the      *)
(* shapes                                                                  *)
(*   direct   <obj>.<field> = v;                                           *)
(*   ctor     <obj> <var> = new <obj>(<field> = v, <field> = v, ...);      *)
(*   indexed  <obj>[0].<field> = v;                                        *)
(*   put      <obj>.put('<field>', v);                                     *)
(* written after a lead: "^" the start of a line, " " a whitespace         *)
(* character, ";" a semicolon, "(" any other character.                    *)
(***************************************************************************)
StmtKinds == {"direct", "ctor", "indexed", "put"}

Leads == {"^", " ", ";", "("}

\* (?:^|[\s;]) with re.MULTILINE
Boundary == {"^", " ", ";"}

Code(kind, lead, obj, var, fields) ==
    [kind |-> kind, lead |-> lead, obj |-> obj, var |-> var, fields |-> fields]

\* a statement with one field, written after whitespace
Stmt(kind, obj, field) == Code(kind, " ", obj, <<"v", "r">>, <<field>>)

\* the statements the files of a validation run are made of
Stmts ==
    { Stmt("direct", <<"A", "c">>, <<"N", "m">>),
      Stmt("direct", <<"a", "c">>, <<"n", "m">>),
      Stmt("ctor", <<"A", "c">>, <<"N", "m">>),
      Stmt("indexed", <<"A", "c">>, <<"n", "m">>),
      Stmt("indexed", <<"a", "c">>, <<"N", "m">>),
      Stmt("put", <<"A", "c">>, <<"N", "m">>) }

\* the statements the texts handed to _extract_assignments are made of:
\* identifiers of one and of two characters, every lead, constructors with
\* one and with two field arguments
Codes ==
    { Code(k, l, o, <<>>, <<f>>) :
        k \in {"direct", "indexed"}, l \in Leads,
        o \in ObjNames \cup {<<"a">>}, f \in {<<"N", "m">>, <<"n">>} }
    \cup { Code("ctor", " ", o, <<"a", "c">>, a) :
             o \in {<<"A", "c">>, <<"a">>},
             a \in { <<<<"N", "m">>>>, <<<<"N", "m">>, <<"n", "m">>>>,
                      <<<<"n">>, <<"N", "m">>>>, <<<<"n">>>> } }
    \cup { Code("put", " ", <<"A", "c">>, <<>>, <<<<"N", "m">>>>) }

Texts == UNION { [1..n -> Stmts] : n \in 0..MaxStmts }

\* [a-zA-Z_]\w+ : a letter or underscore, then at least one word character
IsIdent(s) == Len(s) >= 2

\* the three regular expressions, in the order of the list `patterns`
Patterns == <<"direct", "ctor", "indexed">>

\* [^)]*?([a-zA-Z_]\w+(?:__c)?)\s*= : the lazy skip stops at the first
\* argument name that is an identifier of the pattern (0 when there is none)
FirstIdent(fields) ==
    IF \E i \in 1..Len(fields) : IsIdent(fields[i])
    THEN CHOOSE i \in 1..Len(fields) :
           IsIdent(fields[i]) /\ \A j \in 1..(i - 1) : ~IsIdent(fields[j])
    ELSE 0

\* re.finditer(pattern, statement): the (groups[0], groups[-1]) of its matches
Matches(pattern, stmt) ==
    IF stmt.kind # pattern \/ ~IsIdent(stmt.obj) THEN {}
    ELSE IF pattern = "ctor"
    THEN IF FirstIdent(stmt.fields) = 0 THEN {}
         ELSE {<<stmt.obj, stmt.fields[FirstIdent(stmt.fields)]>>}
    ELSE IF stmt.lead \in Boundary /\ IsIdent(stmt.fields[1])
    THEN {<<stmt.obj, stmt.fields[1]>>}
    ELSE {}

\* a dict of sets as a function from its keys to non-empty sets
FromPairs(pairs) ==
    [o \in {p[1] : p \in pairs} |-> {p[2] : p \in {q \in pairs : q[1] = o}}]

\* mutant: the patterns are applied whatever the suffix of the file
extract_assignments_any_suffix(suffix, content) ==
    FromPairs(UNION { Matches(Patterns[p], content[i]) :
                        p \in 1..Len(Patterns), i \in 1..Len(content) })

extract_assignments(suffix, content) ==
    IF suffix = ".cls"
    THEN FromPairs(UNION { Matches(Patterns[p], content[i]) :
                             p \in 1..Len(Patterns), i \in 1..Len(content) })
    ELSE FromPairs({})

\* lines 171-174: all_assignments[sobj].update(fields) for every item
Merge(all, assignments) ==
    [o \in DOMAIN all \cup DOMAIN assignments |->
        (IF o \in DOMAIN all THEN all[o] ELSE {})
          \cup (IF o \in DOMAIN assignments THEN assignments[o] ELSE {})]

(***************************************************************************)
(* The describe subprocess, as _get_sobject_metadata sees it: the          *)
(* exception subprocess.run raised (if any), the return code, whether      *)
(* stderr holds 'No such object' / 'not found', whether stdout parses as   *)
(* JSON, and the parsed object (keys "status" and "fields", both           *)
(* optional).  "fields" maps each reported field name to its dict.         *)
(***************************************************************************)
FieldMaps == { [n \in {name} |-> m] : name \in MetaFieldNames, m \in FieldMetas }

\* the field dicts of the unit tests of FieldInfo (test_writeable_field,
\* test_read_only_field, test_formula_field, test_system_field, test_external_field)
TestMetas ==
    { Dict({"updateable", "type"}, TRUE, FALSE, <<"String">>),
      Dict({"updateable", "type"}, FALSE, FALSE, <<"String">>),
      Dict({"updateable", "calculated", "type"}, FALSE, TRUE, <<"String">>),
      Dict({"updateable", "calculated", "type"}, FALSE, FALSE, <<"System.", "Date">>),
      Dict({"updateable", "calculated", "type"}, FALSE, FALSE, <<"ExternalFieldDefinition">>) }

TestFieldMaps == { [n \in {name} |-> m] : name \in MetaFieldNames, m \in TestMetas }

\* an object with two fields: Nm is updateable; nm is not updateable, not
\* calculated, and of a type that is neither external nor system
ScenarioFields ==
    [n \in FieldNames |->
        IF n = <<"N", "m">>
        THEN Dict({"updateable", "type"}, TRUE, FALSE, <<"String">>)
        ELSE Dict({"updateable", "calculated", "type"}, FALSE, FALSE, <<"String">>)]

Completed(returncode, notfound, parses, data) ==
    [exc |-> "none", returncode |-> returncode, notfound |-> notfound,
     parses |-> parses, data |-> data]

DescribeResults(fieldmap) ==
    { [exc |-> e, returncode |-> 0, notfound |-> FALSE, parses |-> FALSE, data |-> <<>>] :
        e \in {"TimeoutExpired", "FileNotFoundError"} }
    \cup { Completed(1, nf, FALSE, <<>>) : nf \in BOOLEAN }
    \cup { Completed(0, FALSE, FALSE, <<>>) }
    \cup { Completed(0, FALSE, TRUE, [k \in {"status"} |-> 1]) }
    \cup { Completed(0, FALSE, TRUE, <<>>) }
    \cup { Completed(0, FALSE, TRUE, [k \in {"status", "fields"} |->
                                        IF k = "status" THEN 0 ELSE fm]) :
             fm \in {<<>>, fieldmap} }

\* how a call of a method ends: it returns a dict or None, raises, or exits
Return(value) == [how |-> "return", none |-> FALSE, value |-> value, exc |-> "", code |-> 0]
ReturnNone == [how |-> "return", none |-> TRUE, value |-> <<>>, exc |-> "", code |-> 0]
Raise(exc) == [how |-> "raise", none |-> TRUE, value |-> <<>>, exc |-> exc, code |-> 0]
Exit(code) == [how |-> "exit", none |-> TRUE, value |-> <<>>, exc |-> "SystemExit", code |-> code]

\* `not metadata`: None or an empty dict
Falsy(res) == res.none \/ DOMAIN res.value = {}

\* mutant: every failing describe command raises, 'No such object' included
get_sobject_metadata_no_notfound(sobj_type, r) ==
    IF r.exc = "FileNotFoundError" THEN Exit(2)
    ELSE IF r.exc = "TimeoutExpired" THEN ReturnNone
    ELSE IF r.returncode # 0 THEN Raise("RuntimeError")
    ELSE IF ~r.parses THEN ReturnNone
    ELSE IF "status" \in DOMAIN r.data /\ r.data["status"] # 0 THEN ReturnNone
    ELSE LET fields == Get(r.data, "fields", <<>>)
         IN  Return([n \in DOMAIN fields |-> FieldInfo(n, sobj_type, fields[n])])

get_sobject_metadata(sobj_type, r) ==
    IF r.exc = "FileNotFoundError" THEN Exit(2)
    ELSE IF r.exc = "TimeoutExpired" THEN ReturnNone
    ELSE IF r.returncode # 0
         THEN IF r.notfound THEN ReturnNone ELSE Raise("RuntimeError")
    ELSE IF ~r.parses THEN ReturnNone
    ELSE IF "status" \in DOMAIN r.data /\ r.data["status"] # 0 THEN ReturnNone
    ELSE LET fields == Get(r.data, "fields", <<>>)
         IN  Return([n \in DOMAIN fields |-> FieldInfo(n, sobj_type, fields[n])])

(***************************************************************************)
(* FieldValidator._validate_sobject_fields, lines 234-262: the issues the  *)
(* loop over sorted(fields) appends.                                       *)
(***************************************************************************)
NotFoundIssue(sobj_type, field_name) ==
    [type |-> "FIELD_NOT_FOUND", sobject |-> sobj_type, field |-> field_name,
     severity |-> "warning",
     reason |-> <<"Field not found in ", sobj_type, " metadata (may be dynamic)">>]

NotWriteableIssue(sobj_type, field_name, field_info) ==
    [type |-> "FIELD_NOT_WRITEABLE", sobject |-> sobj_type, field |-> field_name,
     field_type |-> field_type(field_info), severity |-> "error",
     reason |-> get_reason_not_writeable(field_info)]

\* mutant: a calculated field is reported even when it is updateable
CheckField_not_formula(sobj_type, field_name, metadata) ==
    IF field_name \notin DOMAIN metadata
    THEN <<NotFoundIssue(sobj_type, field_name)>>
    ELSE IF is_formula(metadata[field_name]) \/ ~is_writeable(metadata[field_name])
         THEN <<NotWriteableIssue(sobj_type, field_name, metadata[field_name])>>
         ELSE <<>>

\* str.lower() on the characters of the model
Lower(s) == [i \in DOMAIN s |-> CASE s[i] = "A" -> "a" [] s[i] = "N" -> "n" [] OTHER -> s[i]]

\* mutant: the field is looked up ignoring letter case
CheckField_ignore_case(sobj_type, field_name, metadata) ==
    IF \A n \in DOMAIN metadata : Lower(n) # Lower(field_name)
    THEN <<NotFoundIssue(sobj_type, field_name)>>
    ELSE LET n == CHOOSE n \in DOMAIN metadata : Lower(n) = Lower(field_name) IN
         IF ~is_writeable(metadata[n])
         THEN <<NotWriteableIssue(sobj_type, field_name, metadata[n])>>
         ELSE <<>>

CheckField(sobj_type, field_name, metadata) ==
    IF field_name \notin DOMAIN metadata
    THEN <<NotFoundIssue(sobj_type, field_name)>>
    ELSE IF ~is_writeable(metadata[field_name])
         THEN <<NotWriteableIssue(sobj_type, field_name, metadata[field_name])>>
         ELSE <<>>

\* mutant: the fields are kept as the list of their matches, so that a field
\* is checked once per match (here: twice)
RECURSIVE CheckFields_per_match(_, _, _)
CheckFields_per_match(sobj_type, names, metadata) ==
    IF names = <<>> THEN <<>>
    ELSE CheckField(sobj_type, Head(names), metadata)
           \o CheckField(sobj_type, Head(names), metadata)
           \o CheckFields_per_match(sobj_type, Tail(names), metadata)

RECURSIVE CheckFields(_, _, _)
CheckFields(sobj_type, names, metadata) ==
    IF names = <<>> THEN <<>>
    ELSE CheckField(sobj_type, Head(names), metadata)
           \o CheckFields(sobj_type, Tail(names), metadata)

\* mutant: the cache is never consulted
validate_sobject_fields_no_cache(cache, iss, sobj_type, fields, r) ==
    LET res == get_sobject_metadata(sobj_type, r)
        stored == [t \in DOMAIN cache \cup {sobj_type} |->
                     IF t = sobj_type THEN res.value ELSE cache[t]]
    IN  IF res.how # "return"
        THEN [how |-> res.how, exc |-> res.exc, code |-> res.code,
              cache |-> cache, issues |-> iss, described |-> TRUE]
        ELSE IF Falsy(res)
        THEN [how |-> "return", exc |-> "", code |-> 0,
              cache |-> cache, issues |-> iss, described |-> TRUE]
        ELSE [how |-> "return", exc |-> "", code |-> 0,
              cache |-> stored,
              issues |-> iss \o CheckFields(sobj_type, Sorted(fields), stored[sobj_type]),
              described |-> TRUE]

\* mutant: a cache entry is dropped once it has been used
validate_sobject_fields_evict(cache, iss, sobj_type, fields, r) ==
    IF sobj_type \in DOMAIN cache
    THEN [how |-> "return", exc |-> "", code |-> 0,
          cache |-> [t \in DOMAIN cache \ {sobj_type} |-> cache[t]],
          issues |-> iss \o CheckFields(sobj_type, Sorted(fields), cache[sobj_type]),
          described |-> FALSE]
    ELSE validate_sobject_fields_no_cache(cache, iss, sobj_type, fields, r)

\* mutant: whatever the lookup returned is stored, None and {} included
validate_sobject_fields_cache_any(cache, iss, sobj_type, fields, r) ==
    LET hit == sobj_type \in DOMAIN cache
        res == IF hit THEN Return(cache[sobj_type])
               ELSE get_sobject_metadata(sobj_type, r)
        stored == IF hit THEN cache
                  ELSE [t \in DOMAIN cache \cup {sobj_type} |->
                          IF t = sobj_type THEN res.value ELSE cache[t]]
    IN  IF res.how # "return"
        THEN [how |-> res.how, exc |-> res.exc, code |-> res.code,
              cache |-> cache, issues |-> iss, described |-> TRUE]
        ELSE IF DOMAIN stored[sobj_type] = {}
        THEN [how |-> "return", exc |-> "", code |-> 0,
              cache |-> stored, issues |-> iss, described |-> ~hit]
        ELSE [how |-> "return", exc |-> "", code |-> 0,
              cache |-> stored,
              issues |-> iss \o CheckFields(sobj_type, Sorted(fields), stored[sobj_type]),
              described |-> ~hit]

\* lines 222-262 for one describe result r (unused on a cache hit): how the
\* call ends, the cache and the issue list it leaves, whether it called describe
validate_sobject_fields(cache, iss, sobj_type, fields, r) ==
    LET hit == sobj_type \in DOMAIN cache
        res == IF hit THEN Return(cache[sobj_type])
               ELSE get_sobject_metadata(sobj_type, r)
        stored == IF hit THEN cache
                  ELSE [t \in DOMAIN cache \cup {sobj_type} |->
                          IF t = sobj_type THEN res.value ELSE cache[t]]
    IN  IF res.how # "return"
        THEN [how |-> res.how, exc |-> res.exc, code |-> res.code,
              cache |-> cache, issues |-> iss, described |-> TRUE]
        ELSE IF ~hit /\ Falsy(res)
        THEN [how |-> "return", exc |-> "", code |-> 0,
              cache |-> cache, issues |-> iss, described |-> TRUE]
        ELSE [how |-> "return", exc |-> "", code |-> 0,
              cache |-> stored,
              issues |-> iss \o CheckFields(sobj_type, Sorted(fields), stored[sobj_type]),
              described |-> ~hit]

(***************************************************************************)
(* The same with self.verbose and the output it guards: next to the        *)
(* issues, the number of lines printed under `if self.verbose`.            *)
(***************************************************************************)
\* mutant: a field the metadata lacks is reported in verbose mode only
CheckFieldVerbose_quiet_not_found(verbose, sobj_type, field_name, metadata) ==
    IF field_name \notin DOMAIN metadata
    THEN [issues |-> IF verbose THEN <<NotFoundIssue(sobj_type, field_name)>> ELSE <<>>,
          printed |-> 0]
    ELSE IF ~is_writeable(metadata[field_name])
         THEN [issues |-> <<NotWriteableIssue(sobj_type, field_name, metadata[field_name])>>,
               printed |-> 0]
         ELSE [issues |-> <<>>, printed |-> IF verbose THEN 1 ELSE 0]

\* lines 236-262: one iteration of the loop over sorted(fields)
CheckFieldVerbose(verbose, sobj_type, field_name, metadata) ==
    IF field_name \notin DOMAIN metadata
    THEN [issues |-> <<NotFoundIssue(sobj_type, field_name)>>, printed |-> 0]
    ELSE IF ~is_writeable(metadata[field_name])
         THEN [issues |-> <<NotWriteableIssue(sobj_type, field_name, metadata[field_name])>>,
               printed |-> 0]
         ELSE [issues |-> <<>>, printed |-> IF verbose THEN 1 ELSE 0]

RECURSIVE CheckFieldsVerbose(_, _, _, _)
CheckFieldsVerbose(verbose, sobj_type, names, metadata) ==
    IF names = <<>> THEN [issues |-> <<>>, printed |-> 0]
    ELSE LET one == CheckFieldVerbose(verbose, sobj_type, Head(names), metadata)
             rest == CheckFieldsVerbose(verbose, sobj_type, Tail(names), metadata)
         IN  [issues |-> one.issues \o rest.issues,
              printed |-> one.printed + rest.printed]

\* lines 222-262 on a FieldValidator constructed with the given verbose
validate_sobject_fields_verbose(verbose, cache, iss, sobj_type, fields, r) ==
    LET hit == sobj_type \in DOMAIN cache
        res == IF hit THEN Return(cache[sobj_type])
               ELSE get_sobject_metadata(sobj_type, r)
        stored == IF hit THEN cache
                  ELSE [t \in DOMAIN cache \cup {sobj_type} |->
                          IF t = sobj_type THEN res.value ELSE cache[t]]
        loop == CheckFieldsVerbose(verbose, sobj_type, Sorted(fields), stored[sobj_type])
    IN  IF res.how # "return"
        THEN [how |-> res.how, exc |-> res.exc, code |-> res.code,
              cache |-> cache, issues |-> iss, described |-> TRUE, printed |-> 0]
        ELSE IF ~hit /\ Falsy(res)
        THEN [how |-> "return", exc |-> "", code |-> 0,
              cache |-> cache, issues |-> iss, described |-> TRUE, printed |-> 0]
        ELSE [how |-> "return", exc |-> "", code |-> 0,
              cache |-> stored, issues |-> iss \o loop.issues,
              described |-> ~hit, printed |-> loop.printed]

\* validate, lines 161-177, for one file (text <<>>: the file is not UTF-8):
\* the assignments it adds and the lines printed under `if self.verbose`
scan_file_verbose(verbose, suffix, decodes, text) ==
    IF ~decodes
    THEN [assignments |-> <<>>, printed |-> IF verbose THEN 1 ELSE 0]
    ELSE LET found == extract_assignments(suffix, text)
         IN  [assignments |-> found,
              printed |-> IF verbose /\ DOMAIN found # {} THEN 1 ELSE 0]

(***************************************************************************)
(* State.                                                                  *)
(***************************************************************************)
VARIABLES
    org,              \* the org: the fields describe reports for an object type
    metadata_cache,   \* self.metadata_cache: object type -> field name -> FieldInfo
    issues,           \* self.issues
    pc,               \* "idle", "scan", "check", "returned", "raised", "exited", "done"
    files,            \* validate: suffixes of files_to_check not yet read
    all_assignments,  \* validate: all_assignments (a direct call: its arguments)
    todo,             \* validate: sorted object types not yet validated
    ret,              \* the (issues, exit code) the last validate call returned
    error,            \* the exception that ended the last validate call, or ""
    calls,            \* calls started on this instance
    lookups,          \* describe calls made, per object type
    resolves,         \* _validate_sobject_fields calls made, per object type
    probe,            \* the last describe of this call: its object type and its result
    again,            \* some (object type, field) pair was matched more than once in this call
    clean,            \* every describe so far reported not-found or at least one field
    apex,             \* files_to_check of this call holds a .cls file
    skips,            \* files of this call that raised UnicodeDecodeError
    status,           \* the exit status of the process, or -1 while it runs
    snippet,          \* a text handed to _extract_assignments
    assignments,      \* the file suffix and the dict _extract_assignments returned for it
    name,             \* a raw object-type name
    normalized,       \* what the normalizer returned, as a one-element sequence
    max_issues,       \* main: args.max_issues, <<>> for None, once main has used it
    report,           \* main: what the summary shows, once printed
    other_cache,      \* metadata_cache of a second FieldValidator
    other_issues,     \* issues of a second FieldValidator
    other_lookups,    \* describe calls the second FieldValidator made, per object type
    other_ret,        \* what validate returned on the second FieldValidator
    printed,          \* lines printed under `if self.verbose`
    other_printed,    \* the same for the second FieldValidator
    step,             \* emergency_rollback.main: where the program is
    backup_records,   \* emergency_rollback.main: the number of records loaded
    confirm,          \* emergency_rollback.main: the answer typed at the prompt
    commands,         \* emergency_rollback: what it has done so far, in order
    success,          \* emergency_rollback.main: what restore_data returned
    exit_status,      \* emergency_rollback: the exit status, or -1 while it runs
    vf_step,          \* VFValidator.validate: "idle", "scan", "returned", "raised"
    vf_files,         \* VFValidator.validate: the number of vf_files not yet validated
    files_checked,    \* VFValidator.files_checked
    vf_issues,        \* VFValidator.issues, of the instance constructed with each verbose
    vf_ret,           \* what VFValidator.validate returned, for each verbose
    vf_file           \* the file the last _validate_file call was given

\* the history of one validate call and of the process
runvars == <<apex, skips, status>>

\* the arguments and results of the functions called on their own
textvars == <<snippet, assignments, name, normalized>>

\* the arguments and the output of main
mainvars == <<max_issues, report>>

\* the attributes of a second FieldValidator instance
twinvars == <<other_cache, other_issues, other_lookups>>

\* the second FieldValidator run side by side with the first
verbosevars == <<other_ret, printed, other_printed>>

\* emergency_rollback.py
rollbackvars == <<step, backup_records, confirm, commands, success, exit_status>>

\* validate_visualforce.py
vfvars == <<vf_step, vf_files, files_checked, vf_issues, vf_ret, vf_file>>

\* the other scripts
farvars == <<rollbackvars, vfvars>>

\* what the validator itself does not touch
sidevars == <<verbosevars, farvars>>

extvars == <<mainvars, twinvars, sidevars>>

vars == <<org, metadata_cache, issues, pc, files, all_assignments, todo, ret, error,
          calls, lookups, resolves, probe, again, clean, apex, skips, status,
          snippet, assignments, name, normalized, max_issues, report,
          other_cache, other_issues, other_lookups, other_ret, printed, other_printed,
          step, backup_records, confirm, commands, success, exit_status,
          vf_step, vf_files, files_checked, vf_issues, vf_ret, vf_file>>

\* validate_field_writeability.py
validatorvars == <<org, metadata_cache, issues, pc, files, all_assignments, todo, ret,
                   error, calls, lookups, resolves, probe, again, clean,
                   runvars, textvars, mainvars, twinvars, verbosevars>>

NoProbe == [sobj |-> <<>>, exc |-> "", returncode |-> 0, notfound |-> FALSE,
            parses |-> FALSE, badstatus |-> FALSE, nfields |-> 0]

\* what the instrumentation keeps of a describe result
Trace(sobj_type, r) ==
            [sobj |-> sobj_type, exc |-> r.exc, returncode |-> r.returncode, notfound |-> r.notfound,
             parses |-> r.parses,
             badstatus |-> ("status" \in DOMAIN r.data /\ r.data["status"] # 0),
             nfields |-> Cardinality(DOMAIN Get(r.data, "fields", <<>>))]

\* the pairs some pattern matches in the text
MatchedPairs(suffix, content) ==
    LET a == extract_assignments(suffix, content)
    IN  { p \in ObjNames \X FieldNames : p[1] \in DOMAIN a /\ p[2] \in a[p[1]] }

\* the number of matches of the pair p in the text, over the three patterns
MatchCount(suffix, content, p) ==
    IF suffix = ".cls"
    THEN Cardinality({ x \in (1..Len(Patterns)) \X (1..Len(content)) :
                         p \in Matches(Patterns[x[1]], content[x[2]]) })
    ELSE 0

\* the pairs of the text that an earlier file of this call assigned already, or
\* that the text itself matches more than once
Rematched(all, suffix, content) ==
    { p \in MatchedPairs(suffix, content) :
        \/ p[1] \in DOMAIN all /\ p[2] \in all[p[1]]
        \/ MatchCount(suffix, content, p) > 1 }

\* the describe reported the object as not existing, or at least one field
Answered(p) ==
    /\ p.exc = "none"
    /\ \/ p.returncode # 0 /\ p.notfound
       \/ p.returncode = 0 /\ p.parses /\ ~p.badstatus /\ p.nfields > 0

\* no file yet
NoFile == [gate |-> "none", wellformed |-> FALSE, unsupported |-> FALSE,
           deprecated |-> FALSE, xss |-> 0, slds |-> FALSE]

\* FieldValidator.__init__
Constructed ==
    /\ metadata_cache = <<>>
    /\ issues = <<>>
    /\ pc = "idle"
    /\ files = <<>>
    /\ all_assignments = <<>>
    /\ todo = <<>>
    /\ ret = [issues |-> <<>>, code |-> 0]
    /\ error = ""
    /\ calls = 0
    /\ lookups = [t \in ObjNames |-> 0]
    /\ resolves = [t \in ObjNames |-> 0]
    /\ probe = NoProbe
    /\ again = FALSE
    /\ clean = TRUE
    /\ apex = FALSE
    /\ skips = 0
    /\ status = -1
    /\ snippet = <<>>
    /\ assignments = <<>>
    /\ name = <<>>
    /\ normalized = <<>>
    /\ max_issues = <<>>
    /\ report = <<>>
    /\ other_cache = <<>>
    /\ other_issues = <<>>
    /\ other_lookups = [t \in ObjNames |-> 0]
    /\ other_ret = [issues |-> <<>>, code |-> 0]
    /\ printed = 0
    /\ other_printed = 0
    /\ step = "start"
    /\ backup_records = 0
    /\ confirm = <<>>
    /\ commands = <<>>
    /\ success = FALSE
    /\ exit_status = -1
    /\ vf_step = "idle"
    /\ vf_files = 0
    /\ files_checked = 0
    /\ vf_issues = [verbose \in BOOLEAN |-> <<>>]
    /\ vf_ret = [verbose \in BOOLEAN |-> [issues |-> <<>>, code |-> 0]]
    /\ vf_file = NoFile

Init == org \in TestFieldMaps \cup {ScenarioFields} /\ Constructed

InitFields == org \in FieldMaps /\ Constructed

\* main, lines 359-360, calls validate once on the FieldValidator it constructs.
\* validate, lines 138-159: the directory check and the two globs
Validate ==
    /\ pc = "idle"
    /\ calls' = calls + 1
    /\ probe' = NoProbe
    /\ again' = FALSE
    /\ all_assignments' = <<>>
    /\ todo' = <<>>
    /\ \E exists \in BOOLEAN, napex \in 0..MaxFiles, njs \in 0..MaxFiles :
         /\ napex + njs <= MaxFiles
         /\ apex' = (exists /\ napex > 0)
         /\ IF ~exists
            THEN /\ pc' = "raised"
                 /\ error' = "FileNotFoundError"
                 /\ UNCHANGED <<files, ret>>
            ELSE IF napex + njs = 0
            THEN /\ pc' = "returned"
                 /\ ret' = [issues |-> <<>>, code |-> 0]
                 /\ error' = ""
                 /\ UNCHANGED files
            ELSE /\ pc' = "scan"
                 /\ files' = [i \in 1..(napex + njs) |->
                                IF i <= napex THEN ".cls" ELSE ".js"]
                 /\ error' = ""
                 /\ UNCHANGED ret
    /\ skips' = 0
    /\ UNCHANGED <<org, metadata_cache, issues, lookups, resolves, clean, status>>
    /\ UNCHANGED textvars
    /\ UNCHANGED extvars

\* mutant: a file that cannot be decoded ends the call with the exception
ScanFile_decode_error_raises ==
    /\ pc = "scan"
    /\ files # <<>>
    /\ files' = Tail(files)
    /\ \/ /\ skips' = skips + 1
          /\ pc' = "raised"
          /\ error' = "UnicodeDecodeError"
          /\ UNCHANGED <<all_assignments, again>>
       \/ \E text \in Texts :
            /\ all_assignments' =
                 Merge(all_assignments, extract_assignments(Head(files), text))
            /\ again' = (again \/ Rematched(all_assignments, Head(files), text) # {})
            /\ UNCHANGED <<skips, pc, error>>
    /\ UNCHANGED <<org, metadata_cache, issues, todo, ret, calls, lookups,
                   resolves, probe, clean, apex, status>>
    /\ UNCHANGED textvars
    /\ UNCHANGED extvars

\* validate, lines 161-177: one iteration of the loop over files_to_check
ScanFile ==
    /\ pc = "scan"
    /\ files # <<>>
    /\ files' = Tail(files)
    /\ \/ /\ skips' = skips + 1                     \* UnicodeDecodeError: continue
          /\ UNCHANGED <<all_assignments, again>>
       \/ \E text \in Texts :
            /\ all_assignments' =
                 Merge(all_assignments, extract_assignments(Head(files), text))
            /\ again' = (again \/ Rematched(all_assignments, Head(files), text) # {})
            /\ UNCHANGED skips
    /\ UNCHANGED <<org, metadata_cache, issues, pc, todo, ret, error, calls, lookups,
                   resolves, probe, clean, apex, status>>
    /\ UNCHANGED textvars
    /\ UNCHANGED extvars

\* validate, lines 179-186: after the last file
EndScan ==
    /\ pc = "scan"
    /\ files = <<>>
    /\ IF DOMAIN all_assignments = {}
       THEN /\ pc' = "returned"
            /\ ret' = [issues |-> <<>>, code |-> 0]
            /\ UNCHANGED todo
       ELSE /\ pc' = "check"
            /\ todo' = Sorted(DOMAIN all_assignments)
            /\ UNCHANGED ret
    /\ UNCHANGED <<org, metadata_cache, issues, files, all_assignments, error, calls,
                   lookups, resolves, probe, again, clean>>
    /\ UNCHANGED <<runvars, textvars>>
    /\ UNCHANGED extvars

\* validate, lines 186-187: one iteration of the loop over the object types
ValidateSObjectFields ==
    /\ pc = "check"
    /\ todo # <<>>
    /\ LET sobj_type == Head(todo) IN
       \E r \in IF sobj_type \in DOMAIN metadata_cache
                THEN {Completed(0, FALSE, FALSE, <<>>)} ELSE DescribeResults(org) :
         LET out == validate_sobject_fields(metadata_cache, issues, sobj_type,
                                            all_assignments[sobj_type], r)
         IN  /\ metadata_cache' = out.cache
             /\ issues' = out.issues
             /\ resolves' = [resolves EXCEPT ![sobj_type] = @ + 1]
             /\ lookups' = IF out.described
                           THEN [lookups EXCEPT ![sobj_type] = @ + 1] ELSE lookups
             /\ probe' = IF out.described THEN Trace(sobj_type, r) ELSE probe
             /\ clean' = (clean /\ (out.described => Answered(Trace(sobj_type, r))))
             /\ pc' = CASE out.how = "return" -> "check"
                        [] out.how = "raise" -> "raised"
                        [] out.how = "exit" -> "exited"
             /\ error' = out.exc
             /\ todo' = IF out.how = "return" THEN Tail(todo) ELSE todo
    /\ UNCHANGED <<org, files, all_assignments, ret, calls, again>>
    /\ UNCHANGED <<runvars, textvars>>
    /\ UNCHANGED extvars

\* mutant: the exit code counts the issues of severity error only
ValidateReturn_errors_only ==
    /\ pc = "check"
    /\ todo = <<>>
    /\ pc' = "returned"
    /\ ret' = [issues |-> issues,
               code |-> IF \E k \in 1..Len(issues) : issues[k].severity = "error"
                        THEN 1 ELSE 0]
    /\ UNCHANGED <<org, metadata_cache, issues, files, all_assignments, todo, error,
                   calls, lookups, resolves, probe, again, clean>>
    /\ UNCHANGED <<runvars, textvars>>
    /\ UNCHANGED extvars

\* validate, line 189
ValidateReturn ==
    /\ pc = "check"
    /\ todo = <<>>
    /\ pc' = "returned"
    /\ ret' = [issues |-> issues, code |-> IF issues # <<>> THEN 1 ELSE 0]
    /\ UNCHANGED <<org, metadata_cache, issues, files, all_assignments, todo, error,
                   calls, lookups, resolves, probe, again, clean>>
    /\ UNCHANGED <<runvars, textvars>>
    /\ UNCHANGED extvars

\* --max-issues as argparse hands it over: <<>> for None, <<n>> for the int n
MaxIssuesArgs == {<<>>, <<-1>>, <<0>>, <<1>>, <<2>>}

\* issues[:n]
Slice(s, n) ==
    IF n >= 0
    THEN SubSeq(s, 1, IF n < Len(s) THEN n ELSE Len(s))
    ELSE SubSeq(s, 1, IF Len(s) + n > 0 THEN Len(s) + n ELSE 0)

\* main, lines 342-343: if args.max_issues and len(issues) > args.max_issues
Truncate(iss, m) ==
    IF m # <<>> /\ m[1] # 0 /\ Len(iss) > m[1] THEN Slice(iss, m[1]) ELSE iss

\* main, lines 346-365: the JSON report (json) or the printed summary
Summary(json, shown, exit_code) ==
    [json |-> json, success |-> (exit_code = 0), issues |-> shown, total |-> Len(shown)]

\* main, lines 343-374: sys.exit(exit_code) after validate returned; an
\* Exception (FileNotFoundError of validate, RuntimeError of the describe) is
\* caught and answered by sys.exit(2) (also when main's own directory check,
\* lines 337-340, fails); the SystemExit(2) of _get_sobject_metadata is not an
\* Exception and ends the process with its own code
\* (main reads args.max_issues and args.json only here, after validate).
SysExit ==
    /\ pc \in {"returned", "raised", "exited"}
    /\ status' = IF pc = "returned" THEN ret.code ELSE 2
    /\ pc' = "done"
    /\ \E m \in MaxIssuesArgs, json \in BOOLEAN :
         /\ max_issues' = m
         /\ report' = IF pc = "returned"
                       THEN <<Summary(json, Truncate(ret.issues, m), ret.code)>>
                       ELSE <<>>
    /\ UNCHANGED <<org, metadata_cache, issues, files, all_assignments, todo, ret, error,
                   calls, lookups, resolves, probe, again, clean, apex, skips>>
    /\ UNCHANGED textvars
    /\ UNCHANGED <<twinvars, sidevars>>

\* _validate_sobject_fields called on its own, as a unit test calls the
\* methods of a FieldValidator
Resolve ==
    /\ pc = "idle"
    /\ calls < MaxCalls
    /\ calls' = calls + 1
    /\ \E sobj_type \in ObjNames, fields \in SUBSET FieldNames :
       \E r \in IF sobj_type \in DOMAIN metadata_cache
                THEN {Completed(0, FALSE, FALSE, <<>>)} ELSE DescribeResults(org) :
         LET out == validate_sobject_fields(metadata_cache, issues, sobj_type, fields, r)
         IN  /\ fields # {}
             /\ all_assignments' = [t \in {sobj_type} |-> fields]
             /\ metadata_cache' = out.cache
             /\ issues' = out.issues
             /\ resolves' = [resolves EXCEPT ![sobj_type] = @ + 1]
             /\ lookups' = IF out.described
                           THEN [lookups EXCEPT ![sobj_type] = @ + 1] ELSE lookups
             /\ probe' = IF out.described THEN Trace(sobj_type, r) ELSE probe
             /\ clean' = (clean /\ (out.described => Answered(Trace(sobj_type, r))))
             /\ pc' = CASE out.how = "return" -> "idle"
                        [] out.how = "raise" -> "raised"
                        [] out.how = "exit" -> "exited"
             /\ error' = out.exc
    /\ UNCHANGED <<org, files, todo, ret, again>>
    /\ UNCHANGED <<runvars, textvars>>
    /\ UNCHANGED extvars

Next ==
    \/ Validate
    \/ ScanFile
    \/ EndScan
    \/ ValidateSObjectFields
    \/ ValidateReturn
    \/ SysExit

Spec == Init /\ [][Next]_vars

NextFields == Resolve

\* mutant: validate starts from an empty issue list
Revalidate_fresh_issues ==
    /\ pc = "returned"
    /\ calls < MaxCalls
    /\ calls' = calls + 1
    /\ probe' = NoProbe
    /\ again' = FALSE
    /\ all_assignments' = <<>>
    /\ todo' = <<>>
    /\ \E exists \in BOOLEAN, napex \in 0..1, njs \in 0..1 :
         /\ napex + njs <= 1
         /\ apex' = (exists /\ napex > 0)
         /\ IF ~exists
            THEN /\ pc' = "raised"
                 /\ error' = "FileNotFoundError"
                 /\ UNCHANGED <<files, ret>>
            ELSE IF napex + njs = 0
            THEN /\ pc' = "returned"
                 /\ ret' = [issues |-> <<>>, code |-> 0]
                 /\ error' = ""
                 /\ UNCHANGED files
            ELSE /\ pc' = "scan"
                 /\ files' = [i \in 1..(napex + njs) |->
                                IF i <= napex THEN ".cls" ELSE ".js"]
                 /\ error' = ""
                 /\ UNCHANGED ret
    /\ skips' = 0
    /\ issues' = <<>>
    /\ UNCHANGED <<org, metadata_cache, lookups, resolves, clean, status>>
    /\ UNCHANGED textvars
    /\ UNCHANGED extvars

\* validate called again on the FieldValidator whose validate has returned:
\* lines 138-160 as in Validate, on a directory of at most one file; nothing
\* resets self.issues or the cache
Revalidate ==
    /\ pc = "returned"
    /\ calls < MaxCalls
    /\ calls' = calls + 1
    /\ probe' = NoProbe
    /\ again' = FALSE
    /\ all_assignments' = <<>>
    /\ todo' = <<>>
    /\ \E exists \in BOOLEAN, napex \in 0..1, njs \in 0..1 :
         /\ napex + njs <= 1
         /\ apex' = (exists /\ napex > 0)
         /\ IF ~exists
            THEN /\ pc' = "raised"
                 /\ error' = "FileNotFoundError"
                 /\ UNCHANGED <<files, ret>>
            ELSE IF napex + njs = 0
            THEN /\ pc' = "returned"
                 /\ ret' = [issues |-> <<>>, code |-> 0]
                 /\ error' = ""
                 /\ UNCHANGED files
            ELSE /\ pc' = "scan"
                 /\ files' = [i \in 1..(napex + njs) |->
                                IF i <= napex THEN ".cls" ELSE ".js"]
                 /\ error' = ""
                 /\ UNCHANGED ret
    /\ skips' = 0
    /\ UNCHANGED <<org, metadata_cache, issues, lookups, resolves, clean, status>>
    /\ UNCHANGED textvars
    /\ UNCHANGED extvars

InitReuse == org = ScenarioFields /\ Constructed

NextReuse ==
    \/ Validate
    \/ Revalidate
    \/ ScanFile
    \/ EndScan
    \/ ValidateSObjectFields
    \/ ValidateReturn

\* validate called up to MaxCalls times on one FieldValidator
SpecReuse == InitReuse /\ [][NextReuse]_vars

\* mutant: metadata_cache is an attribute of the class, one dict for every
\* FieldValidator
ResolveOther_shared_cache ==
    /\ calls < MaxCalls
    /\ calls' = calls + 1
    /\ \E sobj_type \in ObjNames, fields \in SUBSET FieldNames :
       \E r \in IF sobj_type \in DOMAIN metadata_cache
                THEN {Completed(0, FALSE, FALSE, <<>>)} ELSE DescribeResults(org) :
         LET out == validate_sobject_fields(metadata_cache, other_issues, sobj_type,
                                            fields, r)
         IN  /\ fields # {}
             /\ other_cache' = out.cache
             /\ metadata_cache' = out.cache
             /\ other_issues' = out.issues
             /\ other_lookups' = IF out.described
                                 THEN [other_lookups EXCEPT ![sobj_type] = @ + 1]
                                 ELSE other_lookups
    /\ UNCHANGED <<org, issues, pc, files, all_assignments, todo, ret,
                   error, lookups, resolves, probe, again, clean>>
    /\ UNCHANGED <<runvars, textvars, mainvars, sidevars>>

\* _validate_sobject_fields called on a second FieldValidator, one that
\* another run constructed (main, lines 338-340) for the same org
ResolveOther ==
    /\ calls < MaxCalls
    /\ calls' = calls + 1
    /\ \E sobj_type \in ObjNames, fields \in SUBSET FieldNames :
       \E r \in IF sobj_type \in DOMAIN other_cache
                THEN {Completed(0, FALSE, FALSE, <<>>)} ELSE DescribeResults(org) :
         LET out == validate_sobject_fields(other_cache, other_issues, sobj_type,
                                            fields, r)
         IN  /\ fields # {}
             /\ other_cache' = out.cache
             /\ other_issues' = out.issues
             /\ other_lookups' = IF out.described
                                 THEN [other_lookups EXCEPT ![sobj_type] = @ + 1]
                                 ELSE other_lookups
    /\ UNCHANGED <<org, metadata_cache, issues, pc, files, all_assignments, todo, ret,
                   error, lookups, resolves, probe, again, clean>>
    /\ UNCHANGED <<runvars, textvars, mainvars, sidevars>>

\* validate called on two FieldValidators for the same directory and org, the
\* first constructed with verbose False, the second with verbose True: lines
\* 138-158 read neither self.verbose nor the instance
ValidateBoth ==
    /\ pc = "idle"
    /\ calls' = calls + 1
    /\ probe' = NoProbe
    /\ again' = FALSE
    /\ all_assignments' = <<>>
    /\ todo' = <<>>
    /\ \E exists \in BOOLEAN, napex \in 0..MaxFiles, njs \in 0..MaxFiles :
         /\ napex + njs <= MaxFiles
         /\ apex' = (exists /\ napex > 0)
         /\ IF ~exists
            THEN /\ pc' = "raised"
                 /\ error' = "FileNotFoundError"
                 /\ UNCHANGED <<files, ret, other_ret>>
            ELSE IF napex + njs = 0
            THEN /\ pc' = "returned"
                 /\ ret' = [issues |-> <<>>, code |-> 0]
                 /\ other_ret' = [issues |-> <<>>, code |-> 0]
                 /\ error' = ""
                 /\ UNCHANGED files
            ELSE /\ pc' = "scan"
                 /\ files' = [i \in 1..(napex + njs) |->
                                IF i <= napex THEN ".cls" ELSE ".js"]
                 /\ error' = ""
                 /\ UNCHANGED <<ret, other_ret>>
    /\ skips' = 0
    /\ UNCHANGED <<org, metadata_cache, issues, lookups, resolves, clean, status>>
    /\ UNCHANGED <<textvars, mainvars, twinvars, printed, other_printed>>
    /\ UNCHANGED farvars

\* validate, lines 161-177, in both
ScanFileBoth ==
    /\ pc = "scan"
    /\ files # <<>>
    /\ files' = Tail(files)
    /\ \E decodes \in BOOLEAN : \E text \in IF decodes THEN Texts ELSE {<<>>} :
         LET quiet == scan_file_verbose(FALSE, Head(files), decodes, text)
             loud == scan_file_verbose(TRUE, Head(files), decodes, text)
         IN  /\ all_assignments' = Merge(all_assignments, quiet.assignments)
             /\ loud.assignments = quiet.assignments
             /\ again' = (again \/ (decodes /\
                                      Rematched(all_assignments, Head(files), text) # {}))
             /\ skips' = IF decodes THEN skips ELSE skips + 1
             /\ printed' = printed + quiet.printed
             /\ other_printed' = other_printed + loud.printed
    /\ UNCHANGED <<org, metadata_cache, issues, pc, todo, ret, error, calls, lookups,
                   resolves, probe, clean, apex, status>>
    /\ UNCHANGED <<textvars, mainvars, twinvars, other_ret>>
    /\ UNCHANGED farvars

\* validate, lines 179-186, in both
EndScanBoth ==
    /\ pc = "scan"
    /\ files = <<>>
    /\ IF DOMAIN all_assignments = {}
       THEN /\ pc' = "returned"
            /\ ret' = [issues |-> <<>>, code |-> 0]
            /\ other_ret' = [issues |-> <<>>, code |-> 0]
            /\ UNCHANGED todo
       ELSE /\ pc' = "check"
            /\ todo' = Sorted(DOMAIN all_assignments)
            /\ UNCHANGED <<ret, other_ret>>
    /\ UNCHANGED <<org, metadata_cache, issues, files, all_assignments, error, calls,
                   lookups, resolves, probe, again, clean>>
    /\ UNCHANGED <<runvars, textvars, mainvars, twinvars, printed, other_printed>>
    /\ UNCHANGED farvars

\* validate, lines 186-187, in both: the same describe result answers the
\* lookup of either instance
ValidateSObjectFieldsBoth ==
    /\ pc = "check"
    /\ todo # <<>>
    /\ LET sobj_type == Head(todo) IN
       \E r \in DescribeResults(org) :
         LET out == validate_sobject_fields_verbose(FALSE, metadata_cache, issues,
                        sobj_type, all_assignments[sobj_type], r)
             other == validate_sobject_fields_verbose(TRUE, other_cache, other_issues,
                          sobj_type, all_assignments[sobj_type], r)
         IN  /\ metadata_cache' = out.cache
             /\ issues' = out.issues
             /\ printed' = printed + out.printed
             /\ other_cache' = other.cache
             /\ other_issues' = other.issues
             /\ other_printed' = other_printed + other.printed
             /\ other_lookups' = IF other.described
                                 THEN [other_lookups EXCEPT ![sobj_type] = @ + 1]
                                 ELSE other_lookups
             /\ resolves' = [resolves EXCEPT ![sobj_type] = @ + 1]
             /\ lookups' = IF out.described
                           THEN [lookups EXCEPT ![sobj_type] = @ + 1] ELSE lookups
             /\ probe' = IF out.described THEN Trace(sobj_type, r) ELSE probe
             /\ clean' = (clean /\ (out.described => Answered(Trace(sobj_type, r))))
             /\ pc' = CASE out.how = "return" -> "check"
                        [] out.how = "raise" -> "raised"
                        [] out.how = "exit" -> "exited"
             /\ error' = out.exc
             /\ todo' = IF out.how = "return" THEN Tail(todo) ELSE todo
    /\ UNCHANGED <<org, files, all_assignments, ret, calls, again>>
    /\ UNCHANGED <<runvars, textvars, mainvars, other_ret>>
    /\ UNCHANGED farvars

\* validate, line 189, in both
ValidateReturnBoth ==
    /\ pc = "check"
    /\ todo = <<>>
    /\ pc' = "returned"
    /\ ret' = [issues |-> issues, code |-> IF issues # <<>> THEN 1 ELSE 0]
    /\ other_ret' = [issues |-> other_issues,
                     code |-> IF other_issues # <<>> THEN 1 ELSE 0]
    /\ UNCHANGED <<org, metadata_cache, issues, files, all_assignments, todo, error,
                   calls, lookups, resolves, probe, again, clean>>
    /\ UNCHANGED <<runvars, textvars, mainvars, twinvars, printed, other_printed>>
    /\ UNCHANGED farvars

NextVerbose ==
    \/ ValidateBoth
    \/ ScanFileBoth
    \/ EndScanBoth
    \/ ValidateSObjectFieldsBoth
    \/ ValidateReturnBoth

\* one validate call with verbose False next to one with verbose True
SpecVerbose == Init /\ [][NextVerbose]_vars

NextTwo == Resolve \/ ResolveOther

(***************************************************************************)
(* validate_visualforce.py.  A file is what _validate_file can see of it:  *)
(* gate: "ok", or why it is left before it is parsed ("outside": resolves  *)
(* outside source_dir, "badpath": resolve raises, "large": more than       *)
(* MAX_FILE_SIZE, "nostat": stat raises, "undecodable": not UTF-8);        *)
(* wellformed: SAFE_XML_PARSE raises no ParseError; unsupported: some      *)
(* element has an attribute of unsupported_attributes; deprecated: some    *)
(* element is a deprecated tag; xss: how many of the two xss_patterns      *)
(* match (the second matches only where the first does); slds: the text    *)
(* has '<apex:page' and no 'slds'.  A text that does not parse has no      *)
(* elements.  Two VFValidators, one per value of verbose, are given the    *)
(* same files.                                                             *)
(***************************************************************************)
Gates == {"ok", "outside", "badpath", "large", "nostat", "undecodable"}

VFFiles ==
    { f \in [gate : Gates, wellformed : BOOLEAN, unsupported : BOOLEAN,
              deprecated : BOOLEAN, xss : 0..2, slds : BOOLEAN] :
        ~f.wellformed => (~f.unsupported /\ ~f.deprecated) }

VFIssue(type, file, severity) == [type |-> type, file |-> file, severity |-> severity]

\* lines 224-263
check_unsupported_attributes(file, f) ==
    IF f.unsupported THEN <<VFIssue("UNSUPPORTED_ATTRIBUTE", file, "error")>> ELSE <<>>

\* lines 265-300
check_deprecated_tags(file, f) ==
    IF f.deprecated THEN <<VFIssue("DEPRECATED_TAG", file, "warning")>> ELSE <<>>

\* lines 302-332: a matching pattern is an issue only `if self.verbose`
check_common_patterns(verbose, file, f) ==
    (IF f.xss >= 1 /\ verbose THEN <<VFIssue("POTENTIAL_XSS", file, "warning")>> ELSE <<>>)
    \o (IF f.xss >= 2 /\ verbose THEN <<VFIssue("POTENTIAL_XSS", file, "warning")>> ELSE <<>>)
    \o (IF f.slds THEN <<VFIssue("MISSING_SLDS", file, "info")>> ELSE <<>>)

\* mutant: the pattern checks run on the text even when it does not parse
validate_file_patterns_after_error(verbose, file, f) ==
    IF f.gate = "large" THEN <<VFIssue("FILE_TOO_LARGE", file, "warning")>>
    ELSE IF f.gate # "ok" THEN <<>>
    ELSE IF ~f.wellformed
         THEN <<VFIssue("SYNTAX_ERROR", file, "error")>>
                \o check_common_patterns(verbose, file, f)
    ELSE check_unsupported_attributes(file, f)
           \o check_deprecated_tags(file, f)
           \o check_common_patterns(verbose, file, f)

\* VFValidator._validate_file, lines 160-222: the issues it appends
validate_file(verbose, file, f) ==
    IF f.gate \in {"outside", "badpath"} THEN <<>>
    ELSE IF f.gate = "large" THEN <<VFIssue("FILE_TOO_LARGE", file, "warning")>>
    ELSE IF f.gate \in {"nostat", "undecodable"} THEN <<>>
    ELSE IF ~f.wellformed THEN <<VFIssue("SYNTAX_ERROR", file, "error")>>
    ELSE check_unsupported_attributes(file, f)
           \o check_deprecated_tags(file, f)
           \o check_common_patterns(verbose, file, f)

\* VFValidator.validate, lines 140-152
VFValidate ==
    /\ vf_step = "idle"
    /\ \E exists \in BOOLEAN, n \in 0..MaxFiles :
         IF ~exists
         THEN /\ vf_step' = "raised"
              /\ UNCHANGED <<vf_files, vf_ret>>
         ELSE IF n = 0
         THEN /\ vf_step' = "returned"
              /\ vf_ret' = [verbose \in BOOLEAN |-> [issues |-> <<>>, code |-> 0]]
              /\ UNCHANGED vf_files
         ELSE /\ vf_step' = "scan"
              /\ vf_files' = n
              /\ UNCHANGED vf_ret
    /\ UNCHANGED <<files_checked, vf_issues, vf_file>>
    /\ UNCHANGED <<validatorvars, rollbackvars>>

\* VFValidator.validate, lines 154-156: one iteration of the loop
VFValidateFile ==
    /\ vf_step = "scan"
    /\ vf_files > 0
    /\ \E f \in VFFiles :
         /\ vf_file' = f
         /\ vf_issues' = [verbose \in BOOLEAN |->
                            vf_issues[verbose]
                              \o validate_file(verbose, files_checked + 1, f)]
    /\ files_checked' = files_checked + 1
    /\ vf_files' = vf_files - 1
    /\ UNCHANGED <<vf_step, vf_ret>>
    /\ UNCHANGED <<validatorvars, rollbackvars>>

\* VFValidator.validate, line 158
VFValidateReturn ==
    /\ vf_step = "scan"
    /\ vf_files = 0
    /\ vf_step' = "returned"
    /\ vf_ret' = [verbose \in BOOLEAN |->
                    [issues |-> vf_issues[verbose],
                     code |-> IF vf_issues[verbose] # <<>> THEN 1 ELSE 0]]
    /\ UNCHANGED <<vf_files, files_checked, vf_issues, vf_file>>
    /\ UNCHANGED <<validatorvars, rollbackvars>>

NextVF == VFValidate \/ VFValidateFile \/ VFValidateReturn

InitVF == org = <<>> /\ Constructed

SpecVF == InitVF /\ [][NextVF]_vars

(***************************************************************************)
(* emergency_rollback.py.  The answer to the prompt is typed char by char. *)
(***************************************************************************)
MaxAnswer == 3

AnswerChars == {"y", "Y", "e", "E", "s", "S", "n", " "}

\* str.lower on the answer
lower(s) ==
    [i \in DOMAIN s |-> CASE s[i] = "Y" -> "y"
                          [] s[i] = "E" -> "e"
                          [] s[i] = "S" -> "s"
                          [] OTHER -> s[i]]

\* main, lines 135-144: too few arguments
Usage ==
    /\ step = "start"
    /\ step' = "exit"
    /\ exit_status' = 1
    /\ UNCHANGED <<backup_records, confirm, commands, success>>
    /\ UNCHANGED <<validatorvars, vfvars>>

\* main, lines 160-164, and load_backup_csv: the file cannot be read (exit 1),
\* or it gives n records, and none is an error (exit 1)
LoadBackup ==
    /\ step = "start"
    /\ \E readable \in BOOLEAN, n \in 0..2 :
         IF readable /\ n > 0
         THEN /\ backup_records' = n
              /\ commands' = Append(commands, "load")
              /\ step' = "loaded"
              /\ UNCHANGED exit_status
         ELSE /\ step' = "exit"
              /\ exit_status' = 1
              /\ commands' = IF readable THEN Append(commands, "load") ELSE commands
              /\ UNCHANGED backup_records
    /\ UNCHANGED <<confirm, success>>
    /\ UNCHANGED <<validatorvars, vfvars>>

\* main, lines 167-168: get_current_records never ends the program
GetCurrentRecords ==
    /\ step = "loaded"
    /\ commands' = Append(commands, "query")
    /\ step' = "queried"
    /\ UNCHANGED <<backup_records, confirm, success, exit_status>>
    /\ UNCHANGED <<validatorvars, vfvars>>

\* main, lines 171-174
ShowDiffPreview ==
    /\ step = "queried"
    /\ commands' = Append(commands, "preview")
    /\ step' = "prompt"
    /\ UNCHANGED <<backup_records, confirm, success, exit_status>>
    /\ UNCHANGED <<validatorvars, vfvars>>

\* the user types one more char of the answer
TypeAnswer ==
    /\ step = "prompt"
    /\ Len(confirm) < MaxAnswer
    /\ \E c \in AnswerChars : confirm' = Append(confirm, c)
    /\ UNCHANGED <<step, backup_records, commands, success, exit_status>>
    /\ UNCHANGED <<validatorvars, vfvars>>

\* line 175 when stdin is closed: input raises EOFError, which nothing catches
InputEOF ==
    /\ step = "prompt"
    /\ confirm = <<>>
    /\ step' = "exit"
    /\ exit_status' = 1
    /\ UNCHANGED <<backup_records, confirm, commands, success>>
    /\ UNCHANGED <<validatorvars, vfvars>>

\* mutant: an answer that starts with y or Y is a yes
Confirm_initial_y ==
    /\ step = "prompt"
    /\ commands' = Append(commands, "input")
    /\ IF confirm = <<>> \/ lower(confirm)[1] # "y"
       THEN /\ step' = "exit"
            /\ exit_status' = 0
       ELSE /\ step' = "restore"
            /\ UNCHANGED exit_status
    /\ UNCHANGED <<backup_records, confirm, success>>
    /\ UNCHANGED <<validatorvars, vfvars>>

\* main, lines 175-179: the user ends the line
Confirm ==
    /\ step = "prompt"
    /\ commands' = Append(commands, "input")
    /\ IF lower(confirm) # <<"y", "e", "s">>
       THEN /\ step' = "exit"
            /\ exit_status' = 0
       ELSE /\ step' = "restore"
            /\ UNCHANGED exit_status
    /\ UNCHANGED <<backup_records, confirm, success>>
    /\ UNCHANGED <<validatorvars, vfvars>>

\* restore_data, lines 107-125: sf data import tree, which gives no output,
\* JSON with status 0, JSON with another status, or something that is not JSON
RestoreTree ==
    /\ step = "restore"
    /\ commands' = Append(commands, "import tree")
    /\ \E output \in {"none", "status 0", "status 1", "not json"} :
         /\ step' = IF output = "not json" THEN "bulk" ELSE "report"
         /\ success' = (output = "status 0")
    /\ UNCHANGED <<backup_records, confirm, exit_status>>
    /\ UNCHANGED <<validatorvars, vfvars>>

\* restore_data, lines 126-130: sf data import bulk
RestoreBulk ==
    /\ step = "bulk"
    /\ commands' = Append(commands, "import bulk")
    /\ \E result \in BOOLEAN : success' = result
    /\ step' = "report"
    /\ UNCHANGED <<backup_records, confirm, exit_status>>
    /\ UNCHANGED <<validatorvars, vfvars>>

\* main, lines 184-200: the report; main returns
Finish ==
    /\ step = "report"
    /\ step' = "exit"
    /\ exit_status' = 0
    /\ UNCHANGED <<backup_records, confirm, commands, success>>
    /\ UNCHANGED <<validatorvars, vfvars>>

InitRollback == org = <<>> /\ Constructed

NextRollback ==
    \/ Usage
    \/ LoadBackup
    \/ GetCurrentRecords
    \/ ShowDiffPreview
    \/ TypeAnswer
    \/ InputEOF
    \/ Confirm
    \/ RestoreTree
    \/ RestoreBulk
    \/ Finish

SpecRollback == InitRollback /\ [][NextRollback]_vars

\* two runs, each with a FieldValidator of its own
SpecTwo == Init /\ [][NextTwo]_vars

\* a char is added to the raw name (test_lowercase_normalization ...
\* test_single_char: the arguments of the calls)
Type ==
    /\ normalized = <<>>
    /\ Len(name) < MaxLen
    /\ \E c \in NameChars : name' = Append(name, c)
    /\ UNCHANGED <<org, metadata_cache, issues, pc, files, all_assignments, todo, ret,
                   error, calls, lookups, resolves, probe, again, clean>>
    /\ UNCHANGED <<runvars, snippet, assignments, normalized>>
    /\ UNCHANGED extvars

\* the normalizer is called on the raw name, then on its own result
Normalize ==
    /\ Len(normalized) < 2
    /\ normalized' = Append(normalized,
                            normalize(IF normalized = <<>> THEN name
                                      ELSE normalized[Len(normalized)]))
    /\ UNCHANGED <<org, metadata_cache, issues, pc, files, all_assignments, todo, ret,
                   error, calls, lookups, resolves, probe, again, clean>>
    /\ UNCHANGED <<runvars, snippet, assignments, name>>
    /\ UNCHANGED extvars

\* a FieldValidator whose methods are called on their own need no org
InitText == org = <<>> /\ Constructed

NextNormalize == Type \/ Normalize

SpecNormalize == InitText /\ [][NextNormalize]_vars

\* a statement is added to the text (the `code` of the unit tests of
\* TestFieldAssignmentDetection)
Write ==
    /\ assignments = <<>>
    /\ Len(snippet) < MaxStmts
    /\ \E c \in Codes : snippet' = Append(snippet, c)
    /\ UNCHANGED <<org, metadata_cache, issues, pc, files, all_assignments, todo, ret,
                   error, calls, lookups, resolves, probe, again, clean>>
    /\ UNCHANGED <<runvars, assignments, name, normalized>>
    /\ UNCHANGED extvars

\* _extract_assignments(Path('test' + suffix), code)
Extract ==
    /\ assignments = <<>>
    /\ \E suffix \in {".cls", ".js"} :
         assignments' = <<[suffix |-> suffix, out |-> extract_assignments(suffix, snippet)]>>
    /\ UNCHANGED <<org, metadata_cache, issues, pc, files, all_assignments, todo, ret,
                   error, calls, lookups, resolves, probe, again, clean>>
    /\ UNCHANGED <<runvars, snippet, name, normalized>>
    /\ UNCHANGED extvars

NextExtract == Write \/ Extract

SpecExtract == InitText /\ [][NextExtract]_vars

SpecFields == InitFields /\ [][NextFields]_vars

(***************************************************************************)
(* Properties.                                                             *)
(***************************************************************************)
IssueIdx == 1..Len(issues)

\* the issues of self.issues recorded for the pair (t, f)
IssuesOf(t, f) == { k \in IssueIdx : issues[k].sobject = t /\ issues[k].field = f }

\* the describe dict the cache holds for field f of object type t
CachedMeta(t, f) == metadata_cache[t][f].metadata

\* the pairs (t, f) whose object type is cached with f among its fields
CachedPairs ==
    { p \in ObjNames \X FieldNames :
        p[1] \in DOMAIN metadata_cache /\ p[2] \in DOMAIN metadata_cache[p[1]] }

\* the validate call has gone through _validate_sobject_fields for (t, f)
Validated(t, f) ==
    /\ pc \in {"idle", "check", "returned"}
    /\ t \in DOMAIN all_assignments
    /\ f \in all_assignments[t]
    /\ \A k \in 1..Len(todo) : todo[k] # t

HasTrue(d, key) == key \in DOMAIN d /\ d[key] = TRUE
HasFalse(d, key) == key \in DOMAIN d /\ d[key] = FALSE

\* C1: a field whose describe dict has updateable = true has no issue in the
\* issue list, whatever its calculated flag and its type are.
C1_WriteableNeverAnIssue ==
    \A p \in CachedPairs :
        HasTrue(CachedMeta(p[1], p[2]), "updateable") => IssuesOf(p[1], p[2]) = {}

\* a writeable field that is calculated and whose type both starts with the
\* system prefix and holds the external marker was assigned and validated
C1_Witness ==
    \E p \in CachedPairs :
        /\ Validated(p[1], p[2])
        /\ CachedMeta(p[1], p[2]) =
             Dict({"updateable", "calculated", "type"}, TRUE, TRUE,
                  <<"System.", "ExternalFieldDefinition">>)
        /\ issues = <<>>

\* C2: a field with updateable = false and calculated = true, once validated,
\* has an issue, and every issue it has carries the formula reason, whatever
\* its type is.
C2_FormulaTakesPrecedence ==
    \A p \in CachedPairs :
        LET m == CachedMeta(p[1], p[2]) IN
        (HasFalse(m, "updateable") /\ HasTrue(m, "calculated")) =>
            /\ Validated(p[1], p[2]) => IssuesOf(p[1], p[2]) # {}
            /\ \A k \in IssuesOf(p[1], p[2]) :
                 /\ issues[k].type = "FIELD_NOT_WRITEABLE"
                 /\ issues[k].reason = <<"Formula field (calculated, not stored)">>

\* a formula field whose type is external and system at once got its issue
C2_Witness ==
    \E p \in CachedPairs :
        /\ CachedMeta(p[1], p[2]) =
             Dict({"updateable", "calculated", "type"}, FALSE, TRUE,
                  <<"System.", "ExternalFieldDefinition">>)
        /\ IssuesOf(p[1], p[2]) # {}

\* the declared type of a describe dict: its 'type', or 'Unknown' without one
DeclaredType(m) == IF "type" \in DOMAIN m THEN m["type"] ELSE <<"Unknown">>
HasMarker(m) ==
    "type" \in DOMAIN m /\ \E i \in DOMAIN m["type"] : m["type"][i] = "ExternalFieldDefinition"
HasPrefix(m) ==
    "type" \in DOMAIN m /\ m["type"] # <<>> /\ Head(m["type"]) = "System."

FourReasons(m) ==
    { <<"Formula field (calculated, not stored)">>,
      <<"External field (integration field)">>,
      <<"System field (", DeclaredType(m), ")">>,
      <<"Read-only field (type: ", DeclaredType(m), ")">> }

\* C3: the issue of a non-writeable field that is not a formula carries the
\* external reason if its type holds the marker, else the system reason if its
\* type starts with the prefix, else the read-only reason; every not-writeable
\* issue carries one of the four reasons.
C3_ReasonPrecedence ==
    \A p \in CachedPairs : \A k \in IssuesOf(p[1], p[2]) :
        LET m == CachedMeta(p[1], p[2]) IN
        /\ issues[k].type = "FIELD_NOT_WRITEABLE"
        /\ issues[k].reason \in FourReasons(m)
        /\ ~HasTrue(m, "calculated") =>
             issues[k].reason =
               IF HasMarker(m) THEN <<"External field (integration field)">>
               ELSE IF HasPrefix(m) THEN <<"System field (", DeclaredType(m), ")">>
               ELSE <<"Read-only field (type: ", DeclaredType(m), ")">>

\* a non-formula field whose type starts with the system prefix and holds the
\* external marker got the external reason
C3_Witness ==
    \E p \in CachedPairs : \E k \in IssuesOf(p[1], p[2]) :
        /\ CachedMeta(p[1], p[2]) =
             Dict({"updateable", "calculated", "type"}, FALSE, FALSE,
                  <<"System.", "ExternalFieldDefinition">>)
        /\ issues[k].reason = <<"External field (integration field)">>

\* what a describe result was, from its trace
IsTimeout(p) == p.exc = "TimeoutExpired"
IsNotFound(p) == p.exc = "none" /\ p.returncode # 0 /\ p.notfound
IsCommandFailure(p) == p.exc = "none" /\ p.returncode # 0 /\ ~p.notfound
IsMalformed(p) == p.exc = "none" /\ p.returncode = 0 /\ ~p.parses
IsBadStatus(p) == p.exc = "none" /\ p.returncode = 0 /\ p.parses /\ p.badstatus
IsFound(p) == p.exc = "none" /\ p.returncode = 0 /\ p.parses /\ ~p.badstatus

\* C4 (as stated): an object type resolved twice or more on one FieldValidator
\* has been looked up exactly once (here: when every describe so far reported
\* either that the object does not exist or at least one field).
C4_ResolvedTwiceOneLookup ==
    clean => \A t \in ObjNames : resolves[t] >= 2 => lookups[t] = 1

\* C4 (amended): once the cache holds an object type, resolving it again makes
\* no describe lookup; a type whose first lookup filled the cache keeps its
\* lookup count at one.
C4_CachedTypeNotLookedUpAgain ==
    [][\A t \in ObjNames :
          t \in DOMAIN metadata_cache => lookups'[t] = lookups[t]]_vars

\* a cached type was resolved twice and looked up once
C4_Witness ==
    \E t \in DOMAIN metadata_cache : resolves[t] >= 2 /\ lookups[t] = 1

\* C5: when the last lookup of this call has timed out, the call has ended
\* with an error: it neither goes on to the next object type nor returns a
\* result.
C5_TimeoutIsFatal ==
    IsTimeout(probe) => pc \in {"raised", "exited"}

\* C6: when the last lookup of this call failed otherwise than by object-not-found
\* (unparsable response, non-zero status, unrecognised command failure), the
\* call has ended with an error.
C6_ProtocolFailureIsFatal ==
    (IsMalformed(probe) \/ IsBadStatus(probe) \/ IsCommandFailure(probe))
        => pc \in {"raised", "exited"}

\* C7 (as stated): every field assigned under an object type that the lookup
\* of this call reported as not existing has exactly one FIELD_NOT_FOUND
\* warning.
C7_NotFoundObjectWarnsPerField ==
    \A t \in ObjNames : \A f \in FieldNames :
        (probe.sobj = t /\ IsNotFound(probe) /\ Validated(t, f)) =>
            Cardinality({ k \in IssuesOf(t, f) :
                            /\ issues[k].type = "FIELD_NOT_FOUND"
                            /\ issues[k].severity = "warning" }) = 1

\* C7 (amended): the resolution of an object type that the lookup reports as
\* not existing appends no issue, leaves the cache as it is, and goes on to
\* the next object type.
C7_NotFoundObjectIsSkipped ==
    [][\A t \in ObjNames :
          (/\ pc = "check" /\ todo # <<>> /\ Head(todo) = t
           /\ lookups'[t] = lookups[t] + 1
           /\ probe'.sobj = t /\ IsNotFound(probe'))
          => /\ issues' = issues
             /\ metadata_cache' = metadata_cache
             /\ pc' = "check"
             /\ todo' = Tail(todo)]_vars

\* the first object type was not found (its one lookup was answered and left
\* the cache without it), the next one was resolved, and the call returned
C7_Witness ==
    /\ pc = "returned"
    /\ \E t, u \in DOMAIN all_assignments :
         /\ StrLess(t, u)
         /\ clean /\ lookups[t] = 1 /\ t \notin DOMAIN metadata_cache
         /\ probe.sobj = u /\ IsFound(probe) /\ u \in DOMAIN metadata_cache
         /\ \E f \in all_assignments[u] : IssuesOf(u, f) # {}
         /\ \A f \in all_assignments[t] : IssuesOf(t, f) = {}

\* C8: a resolution of an object type with metadata appends, for each assigned
\* field whose exact name the metadata lacks, exactly one FIELD_NOT_FOUND
\* warning, and for each other assigned field one FIELD_NOT_WRITEABLE error
\* unless it is updateable.
C8_ExactNameLookup ==
    [][\A t \in ObjNames :
          (/\ pc = "check" /\ todo # <<>> /\ Head(todo) = t
           /\ pc' = "check" /\ t \in DOMAIN metadata_cache')
          => \A f \in all_assignments[t] :
               LET new == { k \in (Len(issues) + 1)..Len(issues') :
                              issues'[k].sobject = t /\ issues'[k].field = f }
               IN  IF \A n \in DOMAIN metadata_cache'[t] : n # f
                   THEN /\ Cardinality(new) = 1
                        /\ \A k \in new : /\ issues'[k].type = "FIELD_NOT_FOUND"
                                          /\ issues'[k].severity = "warning"
                   ELSE /\ Cardinality(new) =
                             IF HasTrue(metadata_cache'[t][f].metadata, "updateable")
                             THEN 0 ELSE 1
                        /\ \A k \in new : /\ issues'[k].type = "FIELD_NOT_WRITEABLE"
                                          /\ issues'[k].severity = "error"]_vars

\* under one object type, a field that differs from a metadata field in letter
\* case only got its warning, and the metadata field itself got its error
C8_Witness ==
    \E t \in DOMAIN metadata_cache : \E f, g \in FieldNames :
        /\ f # g /\ Lower(f) = Lower(g)
        /\ Validated(t, f) /\ Validated(t, g)
        /\ g \in DOMAIN metadata_cache[t] /\ f \notin DOMAIN metadata_cache[t]
        /\ \E k \in IssuesOf(t, f) : issues[k].type = "FIELD_NOT_FOUND"
        /\ \E k \in IssuesOf(t, g) : issues[k].type = "FIELD_NOT_WRITEABLE"

\* C9: validate returns exit code 1 if the issue list it returns is non-empty
\* and exit code 0 if it is empty.
C9_FailedIffIssues ==
    pc = "returned" =>
        /\ ret.code \in {0, 1}
        /\ ret.code = 1 <=> ret.issues # <<>>

\* a call returned issues that are all warnings, with exit code 1
C9_Witness ==
    /\ pc = "returned"
    /\ ret.issues # <<>>
    /\ \A k \in 1..Len(ret.issues) : ret.issues[k].severity = "warning"
    /\ ret.code = 1

\* C10: throughout a validation run, the issue list holds at most one issue
\* for each (object type, field) pair, however often the pair was matched.
C10_OneIssuePerPair ==
    \A t \in ObjNames : \A f \in FieldNames : Cardinality(IssuesOf(t, f)) <= 1

\* some pair was matched more than once, and every assigned pair has exactly
\* one issue in the returned list
C10_Witness ==
    /\ calls = 1 /\ pc = "returned"
    /\ again
    /\ \A t \in DOMAIN all_assignments : \A f \in all_assignments[t] :
         Cardinality(IssuesOf(t, f)) = 1
    /\ ret.issues = issues

\* the keys of the aggregated assignments and of the metadata cache
ObjectKeys == DOMAIN all_assignments \cup DOMAIN metadata_cache

\* C11: every key of the aggregated assignments and of the metadata cache is
\* in canonical form, so that names differing in the case of their first
\* character share one key and one cache entry.
C11_KeysCanonical ==
    /\ \A k \in ObjectKeys : normalize(k) = k
    /\ \A k, l \in DOMAIN metadata_cache : normalize(k) = normalize(l) => k = l

\* the statements of kind `kind` of the text under extraction
StatementsOf(kind) == { i \in DOMAIN snippet : snippet[i].kind = kind }

\* the dict returned for a .cls text holds field f under the key t
Recorded(t, f) ==
    \A i \in DOMAIN assignments :
        assignments[i].suffix = ".cls" =>
            t \in DOMAIN assignments[i].out /\ f \in assignments[i].out[t]

\* C12: for every direct assignment X.Y = v of a .cls text, the returned dict
\* holds Y under the key normalize(X).
C12_DirectAssignmentExtracted ==
    \A i \in StatementsOf("direct") :
        Recorded(normalize(snippet[i].obj), snippet[i].fields[1])

C14_EndToEndOneIssue ==
    ( /\ pc = "returned"
      /\ org = ScenarioFields
      /\ all_assignments = [t \in {<<"a", "c">>} |-> {<<"N", "m">>, <<"n", "m">>}]
      /\ probe.sobj = <<"A", "c">> => (IsFound(probe) /\ probe.nfields = 2) )
    => /\ ret.code = 1
       /\ Len(ret.issues) = 1
       /\ ret.issues[1].type = "FIELD_NOT_WRITEABLE"
       /\ ret.issues[1].field = <<"n", "m">>
       /\ ret.issues[1].reason = <<"Read-only field (type: ", <<"String">>, ")">>

\* (object type, field) pairs in the order of Python's tuple comparison
PairLess(t, f, u, g) == StrLess(t, u) \/ (t = u /\ StrLess(f, g))

\* C15: the object types still to be resolved are in ascending order and
\* come after every type that has an issue already, and the issue list is
\* strictly ascending by (object type, field) at every moment of a run: it
\* is the one sorted sequence of its set of issues, whatever the order in
\* which the units were scanned.
C15_SortedResolutionAndIssues ==
    /\ \A a, b \in DOMAIN todo : a < b => StrLess(todo[a], todo[b])
    /\ \A a \in DOMAIN todo : \A i \in IssueIdx : StrLess(issues[i].sobject, todo[a])
    /\ \A i, j \in IssueIdx :
         i < j => PairLess(issues[i].sobject, issues[i].field,
                           issues[j].sobject, issues[j].field)

\* a run returned four issues, two for each of two object types
C15_Witness ==
    /\ pc = "returned"
    /\ Len(ret.issues) = 4
    /\ ret.issues[1].sobject = <<"A", "c">> /\ ret.issues[1].field = <<"N", "m">>
    /\ ret.issues[4].sobject = <<"a", "c">> /\ ret.issues[4].field = <<"n", "m">>

\* C16: a step in which a unit cannot be decoded adds no assignment and no
\* issue and leaves validate in its loop over the remaining units; and a run
\* with such units that returns has read every unit and resolved every
\* object type the other units assign.
C16_UnreadableUnitSkipped ==
    /\ [][skips' = skips + 1 =>
             /\ pc = "scan" /\ pc' = "scan"
             /\ files' = Tail(files)
             /\ all_assignments' = all_assignments
             /\ issues' = issues
             /\ error' = error]_vars
    /\ [](pc = "returned" /\ skips > 0 =>
             /\ files = <<>>
             /\ \A t \in DOMAIN all_assignments : resolves[t] = 1)

\* a run with an unreadable unit returned the issues of another unit
C16_Witness ==
    /\ pc = "returned"
    /\ skips > 0
    /\ ret.issues # <<>>

\* C17: in a run whose files are all .js files, no text adds an assignment:
\* the run resolves no object type, makes no describe lookup, records no
\* issue, and returns the empty list with exit code 0.
C17_JsUnitsExtractNothing ==
    (~apex /\ error = "") =>
        /\ all_assignments = <<>>
        /\ pc # "check"
        /\ \A t \in ObjNames : lookups[t] = 0 /\ resolves[t] = 0
        /\ issues = <<>>
        /\ pc = "returned" => ret = [issues |-> <<>>, code |-> 0]
        /\ pc = "done" => status = 0

\* every file of a run without .cls files has been read
C17_Witness ==
    /\ ~apex
    /\ pc = "scan"
    /\ files = <<>>
    /\ skips = 0

\* C18: for every constructor statement T v = new T(F1 = .., F2 = ..) of a
\* .cls text whose type and argument names are identifiers of the pattern,
\* the returned dict holds every Fi under T, and holds nothing under v unless
\* another statement of the text assigns through v.
C18_ConstructorFieldsUnderType ==
    \A i \in StatementsOf("ctor") :
        LET st == snippet[i] IN
        (IsIdent(st.obj) /\ \A k \in DOMAIN st.fields : IsIdent(st.fields[k])) =>
            /\ \A k \in DOMAIN st.fields : Recorded(st.obj, st.fields[k])
            /\ (\A j \in DOMAIN snippet : snippet[j].obj # st.var) =>
                 \A a \in DOMAIN assignments : st.var \notin DOMAIN assignments[a].out

\* C19: for every indexed assignment X[0].Y = v of a .cls text, the returned
\* dict holds Y under the key normalize(X), as for a direct assignment.
C19_IndexedAssignmentExtracted ==
    \A i \in StatementsOf("indexed") :
        Recorded(normalize(snippet[i].obj), snippet[i].fields[1])

\* the last describe of the run could not reach the metadata source: it
\* timed out, the CLI is missing, or the describe command failed
Unreachable ==
    IsTimeout(probe) \/ probe.exc = "FileNotFoundError" \/ IsCommandFailure(probe)

\* C20: the process ends with status 2 whenever the metadata source could
\* not be reached, and otherwise, when validate returned, with 0 exactly when
\* there is no issue and 1 exactly when there is one; a fatal condition never
\* ends with 0 or 1.
C20_ExitStatusSeparatesOutcomes ==
    pc = "done" =>
        /\ status \in {0, 1, 2}
        /\ Unreachable => status = 2
        /\ (error = "" /\ ~Unreachable) => status = IF issues = <<>> THEN 0 ELSE 1
        /\ status = 0 => issues = <<>>
        /\ status = 1 => issues # <<>>

\* main has printed its summary after a validate call that returned
Reported == pc = "done" /\ report # <<>>

\* the issues validate returned for object types that sort before t
IssuesBefore(t) == { k \in 1..Len(ret.issues) : StrLess(ret.issues[k].sobject, t) }

\* C21: with --max-issues N (N positive) the scan stops after N issues: no
\* object type is resolved once N issues have been found, and at most N
\* issues are reported.
C21_MaxIssuesStopsScanning ==
    (Reported /\ max_issues # <<>> /\ max_issues[1] > 0) =>
        /\ Len(report[1].issues) <= max_issues[1]
        /\ \A t \in ObjNames :
             resolves[t] >= 1 => Cardinality(IssuesBefore(t)) < max_issues[1]

\* C30: in the JSON report of main, success is true exactly when total is 0,
\* and total is the length of the issues list, whatever --max-issues is.
C30_ReportSuccessIffEmpty ==
    (Reported /\ report[1].json) =>
        /\ report[1].success <=> (report[1].total = 0)
        /\ report[1].total = Len(report[1].issues)

\* C22: a cached object type keeps its entry unchanged, and a resolution of a
\* cached type makes no lookup and checks the fields against the stored value.
C22_CachedMetadataReused ==
    [][\A t \in DOMAIN metadata_cache :
         /\ t \in DOMAIN metadata_cache'
         /\ metadata_cache'[t] = metadata_cache[t]
         /\ resolves'[t] = resolves[t] + 1 =>
              /\ lookups' = lookups
              /\ issues' = issues \o CheckFields(t, Sorted(all_assignments'[t]),
                                                 metadata_cache[t])]_vars

\* a cached object type was resolved a second time, with an issue
C22_Witness ==
    \E t \in DOMAIN metadata_cache :
        /\ resolves[t] = 2
        /\ lookups[t] = 1
        /\ \E k \in IssueIdx : issues[k].sobject = t

\* a describe that gives no metadata: it timed out, the object was not found,
\* the response was unparsable or had a non-zero status, or it listed no field
YieldsNothing(p) ==
    \/ IsTimeout(p) \/ IsNotFound(p) \/ IsMalformed(p) \/ IsBadStatus(p)
    \/ IsFound(p) /\ p.nfields = 0

\* C26: every cache entry is keyed by an object-type string that was looked
\* up and holds the non-empty field map that lookup gave; a lookup that yields
\* nothing leaves the cache and the issue list as they were.
C26_CacheHoldsSuccessfulLookups ==
    /\ [](\A t \in DOMAIN metadata_cache :
            /\ lookups[t] >= 1
            /\ DOMAIN metadata_cache[t] # {}
            /\ metadata_cache[t] = [n \in DOMAIN org |-> FieldInfo(n, t, org[n])])
    /\ [][\A t \in ObjNames :
            (lookups'[t] = lookups[t] + 1 /\ YieldsNothing(probe'))
            => /\ metadata_cache' = metadata_cache
               /\ issues' = issues]_vars

\* one object type is cached with an issue, and the lookup of another one
\* yielded nothing
C26_Witness ==
    \E t \in DOMAIN metadata_cache : \E u \in ObjNames \ DOMAIN metadata_cache :
        /\ lookups[u] = 1
        /\ probe.sobj = u /\ YieldsNothing(probe)
        /\ pc = "idle"
        /\ \A k \in IssueIdx : issues[k].sobject = t
        /\ issues # <<>>

\* C23: two FieldValidator instances share no state: both start empty, no
\* step of one changes the cache or the issues of the other, and each cache
\* holds only what the instance's own lookups gave.
C23_InstancesShareNoState ==
    /\ [](\A t \in ObjNames :
            /\ t \in DOMAIN metadata_cache => lookups[t] >= 1
            /\ t \in DOMAIN other_cache => other_lookups[t] >= 1)
    /\ [][/\ (metadata_cache' # metadata_cache \/ issues' # issues)
             => UNCHANGED <<other_cache, other_issues>>
          /\ (other_cache' # other_cache \/ other_issues' # other_issues)
             => UNCHANGED <<metadata_cache, issues>>]_vars

\* both instances resolved the same object type, each by a lookup of its own,
\* and only one of them recorded an issue
C23_Witness ==
    \E t \in DOMAIN metadata_cache \cap DOMAIN other_cache :
        /\ lookups[t] = 1 /\ other_lookups[t] = 1
        /\ issues # <<>> /\ other_issues = <<>>

\* s is a prefix of t
IsPrefix(s, t) == Len(s) <= Len(t) /\ SubSeq(t, 1, Len(s)) = s

\* C27: self.issues only grows; a further validate call on the same instance
\* that gets to its validation phase returns a list that starts with the whole
\* list of the call before, with exit code 1 if that list had an issue.
C27_IssuesAppendOnly ==
    [][/\ IsPrefix(issues, issues')
       /\ (calls >= 2 /\ pc = "check" /\ pc' = "returned")
          => /\ IsPrefix(ret.issues, ret'.issues)
             /\ ret'.issues = issues
             /\ ret.issues # <<>> => ret'.code = 1]_vars

\* the second call returned the issue of the first call twice: once from the
\* first call, once found again
C27_Witness ==
    /\ calls = 2 /\ pc = "returned"
    /\ ret.code = 1
    /\ Len(ret.issues) = 2
    /\ ret.issues[1] = ret.issues[2]
    /\ todo = <<>> /\ DOMAIN all_assignments # {}

\* C28: FieldValidator.validate gives the same issues, the same exit code and
\* the same lookups with verbose True as with verbose False.
C28_VerboseChangesOutputOnly ==
    /\ other_issues = issues
    /\ other_cache = metadata_cache
    /\ other_lookups = lookups
    /\ other_ret = ret
    /\ printed = 0

\* both calls returned an issue for one field; the verbose one also printed
\* the line of a writeable field
C28_Witness ==
    /\ pc = "returned"
    /\ ret.code = 1 /\ other_ret.code = 1
    /\ other_printed > 0
    /\ \E t \in DOMAIN all_assignments :
         /\ lookups[t] = 1
         /\ Cardinality(all_assignments[t]) = 2
         /\ Cardinality({ k \in IssueIdx : issues[k].sobject = t }) = 1
         /\ t \in DOMAIN metadata_cache
         /\ all_assignments[t] \cap DOMAIN metadata_cache[t] # {}

\* the positions of an event in what emergency_rollback has done
At(event) == { i \in DOMAIN commands : commands[i] = event }

Imports == At("import tree") \cup At("import bulk")

\* C24: an import command runs only after the backup was loaded with at least
\* one record, then the preview was shown, then the user answered yes (in any
\* letter case); any other answer ends the program with status 0 and without
\* an import, and a yes is followed by the import.
C24_ImportOnlyAfterConfirmation ==
    /\ \A i \in Imports :
         /\ backup_records >= 1
         /\ lower(confirm) = <<"y", "e", "s">>
         /\ \E a, b, c \in 1..(i - 1) :
              /\ a < b /\ b < c
              /\ commands[a] = "load" /\ commands[b] = "preview" /\ commands[c] = "input"
    /\ (At("input") # {} /\ lower(confirm) # <<"y", "e", "s">>) =>
         /\ step = "exit" /\ exit_status = 0
         /\ Imports = {}
    /\ (At("input") # {} /\ lower(confirm) = <<"y", "e", "s">> /\ step = "exit") =>
         At("import tree") # {}

\* the user answered YeS and both import commands ran
C24_Witness ==
    /\ step = "exit" /\ exit_status = 0
    /\ confirm = <<"Y", "e", "S">>
    /\ At("import tree") # {} /\ At("import bulk") # {}
    /\ success

\* the issues the last _validate_file call appended, for each verbose
Appended(verbose) ==
    SubSeq(vf_issues'[verbose], Len(vf_issues[verbose]) + 1, Len(vf_issues'[verbose]))

SyntaxErrors(iss) == { k \in DOMAIN iss : iss[k].type = "SYNTAX_ERROR" }

\* C25 (as stated): _validate_file on a file whose content is not well-formed
\* appends exactly one issue, a SYNTAX_ERROR of severity error for that file,
\* and on well-formed content it appends no SYNTAX_ERROR.
C25_MalformedGivesOneSyntaxError ==
    [][files_checked' = files_checked + 1 =>
         \A verbose \in BOOLEAN :
            IF ~vf_file'.wellformed
            THEN Appended(verbose) = <<VFIssue("SYNTAX_ERROR", files_checked', "error")>>
            ELSE SyntaxErrors(Appended(verbose)) = {}]_vars

\* C25 (amended): the same for a file that gets as far as the parser, that is
\* one inside source_dir, of at most MAX_FILE_SIZE bytes and readable as
\* UTF-8; a file that does not get there is given no SYNTAX_ERROR.
C25_ParsedMalformedGivesOneSyntaxError ==
    [][files_checked' = files_checked + 1 =>
         \A verbose \in BOOLEAN :
            IF vf_file'.gate = "ok" /\ ~vf_file'.wellformed
            THEN Appended(verbose) = <<VFIssue("SYNTAX_ERROR", files_checked', "error")>>
            ELSE SyntaxErrors(Appended(verbose)) = {}]_vars

\* the one file validated does not parse, matches both XSS patterns and lacks
\* SLDS, and the verbose instance has the syntax error as its only issue
C25_Witness ==
    /\ files_checked = 1
    /\ vf_file.gate = "ok" /\ ~vf_file.wellformed
    /\ vf_file.xss = 2 /\ vf_file.slds
    /\ vf_issues[TRUE] = <<VFIssue("SYNTAX_ERROR", 1, "error")>>

\* C29: VFValidator.validate returns the same issue list and the same exit
\* code with verbose True as with verbose False.
C29_VFVerboseChangesOutputOnly ==
    /\ vf_issues[TRUE] = vf_issues[FALSE]
    /\ vf_ret[TRUE] = vf_ret[FALSE]

=============================================================================
